---- MODULE Spec2Model ----
(***************************************************************************)
(* Model of the Editor.js Paragraph block tool (src/src/index.js).         *)
(*                                                                         *)
(* JavaScript values are records [t, v]: t is the value's type and v its   *)
(* content as a sequence of tokens (the characters of a string, the        *)
(* printed form of a number or boolean, the elements of an array).  The    *)
(* string 'left' is the one-token sequence <<"left">>.  A value handed to  *)
(* the constructor as `data` also carries the two properties the code      *)
(* reads from it, text and align.                                          *)
(***************************************************************************)
EXTENDS Integers, Sequences, FiniteSets

VARIABLES
    config,     \* this._config: [alignTypes, defaultAlignType, preserveBlank]
    data,       \* this._data: [text, align]
    element,    \* this._element: [classList, innerHTML]
    frames,     \* requestAnimationFrame callbacks of onPaste not yet run
    thrown,     \* the constructor ended with a TypeError: there is no block
    lastPaste,  \* event.detail.data.innerHTML of the latest paste event
    out         \* the latest call: [op, arg, ret, warn]

vars == <<config, data, element, frames, thrown, lastPaste, out>>

----------------------------------------------------------------------------
(* Bounds of the model *)

MaxAlignTypes == 2      \* length of config.alignTypes
MaxTextLen == 1         \* length of a constructed or pasted text
MaxHtmlLen == 2         \* length of the element's innerHTML after merges
MaxSavedLen == 3        \* length of the text handed to validate
MaxFrames == 2          \* pending animation-frame callbacks

----------------------------------------------------------------------------
(* JavaScript values *)

Range(s) == {s[i] : i \in DOMAIN s}

SeqsUpTo(S, n) == UNION {[1..k -> S] : k \in 0..n}

Undefined == [t |-> "undefined", v |-> <<>>]
Null == [t |-> "null", v |-> <<>>]
Str(s) == [t |-> "string", v |-> s]
Num(n) == [t |-> "number", v |-> <<n>>]
Bool(b) == [t |-> "boolean", v |-> <<b>>]
Arr(s) == [t |-> "array", v |-> s]

\* ToBoolean: '', 0, false, undefined and null are falsy; arrays are truthy
Truthy(x) ==
    CASE x.t = "undefined" -> FALSE
      [] x.t = "null" -> FALSE
      [] x.t = "string" -> x.v # <<>>
      [] x.t = "number" -> x.v # <<"0">>
      [] x.t = "boolean" -> x.v = <<"true">>
      [] OTHER -> TRUE

\* ToString of a primitive
JSToString(x) ==
    CASE x.t = "undefined" -> <<"undefined">>
      [] x.t = "null" -> <<"null">>
      [] OTHER -> x.v

\* typeof
TypeOf(x) == IF x.t \in {"null", "array"} THEN "object" ELSE x.t

\* a primitive handed in as `data`: reading .text or .align of it gives undefined
Prim(x) == [t |-> x.t, v |-> x.v, text |-> Undefined, align |-> Undefined]

\* an object literal {text, align}
Obj(text, align) == [t |-> "object", v |-> <<>>, text |-> text, align |-> align]

WhiteSpace == {" ", "\t", "\n"}

\* String.prototype.trim
RECURSIVE TrimStart(_)
TrimStart(s) ==
    IF s # <<>> /\ Head(s) \in WhiteSpace THEN TrimStart(Tail(s)) ELSE s

RECURSIVE TrimEnd(_)
TrimEnd(s) ==
    IF s # <<>> /\ s[Len(s)] \in WhiteSpace
    THEN TrimEnd(SubSeq(s, 1, Len(s) - 1))
    ELSE s

Trim(s) == TrimEnd(TrimStart(s))

----------------------------------------------------------------------------
(* Static members *)

ALIGN_TYPES == <<"left", "center", "right", "justify">>

DEFAULT_ALIGN_TYPE == "left"

\* this._CSS.wrapperForAlignment
wrapperForAlignment(alignType) == <<"ce-paragraph-align", alignType>>

\* this._CSS.wrapper and this._CSS.block
wrapperClasses == {<<"ce-paragraph">>, <<"ce-block">>}

----------------------------------------------------------------------------
(* Getters *)

\* mutant: an empty intersection falls back to all the types
availableAlignTypesWithFallback(cfg) ==
    LET includes(align) == align \in Range(cfg.alignTypes.v)
        chosen == IF Truthy(cfg.alignTypes) THEN SelectSeq(ALIGN_TYPES, includes) ELSE <<>>
    IN IF chosen = <<>> THEN ALIGN_TYPES ELSE chosen

\* mutant: the configured list is filtered, not ALIGN_TYPES
availableAlignTypesInConfigOrder(cfg) ==
    IF Truthy(cfg.alignTypes)
    THEN LET supported(align) == align \in Range(ALIGN_TYPES)
         IN SelectSeq(cfg.alignTypes.v, supported)
    ELSE ALIGN_TYPES

availableAlignTypes(cfg) ==
    IF Truthy(cfg.alignTypes)
    THEN LET includes(align) == align \in Range(cfg.alignTypes.v)
         IN SelectSeq(ALIGN_TYPES, includes)
    ELSE ALIGN_TYPES

\* availableAlignTypes.find((align) => align === value)
findAlign(cfg, value) ==
    LET hits == SelectSeq(availableAlignTypes(cfg), LAMBDA align : Str(<<align>>) = value)
    IN IF hits = <<>> THEN Undefined ELSE Str(<<Head(hits)>>)

\* mutant: the default is looked up in ALIGN_TYPES, not in availableAlignTypes
userDefaultAlignTypeAnySupported(cfg) ==
    IF Truthy(cfg.defaultAlignType)
    THEN IF \E align \in Range(ALIGN_TYPES) : Str(<<align>>) = cfg.defaultAlignType
         THEN [ret |-> cfg.defaultAlignType, warn |-> FALSE]
         ELSE [ret |-> Str(<<DEFAULT_ALIGN_TYPE>>), warn |-> TRUE]
    ELSE [ret |-> Str(<<DEFAULT_ALIGN_TYPE>>), warn |-> FALSE]

\* the value returned, and whether console.warn was called
userDefaultAlignType(cfg) ==
    IF Truthy(cfg.defaultAlignType)
    THEN LET userSpecified == findAlign(cfg, cfg.defaultAlignType)
         IN IF Truthy(userSpecified)
            THEN [ret |-> userSpecified, warn |-> FALSE]
            ELSE [ret |-> Str(<<DEFAULT_ALIGN_TYPE>>), warn |-> TRUE]
    ELSE [ret |-> Str(<<DEFAULT_ALIGN_TYPE>>), warn |-> FALSE]

userPreserveBlank(cfg) == Truthy(cfg.preserveBlank)

currentAlignType(cfg, d) ==
    LET alignType == findAlign(cfg, d.align)
    IN IF ~Truthy(alignType)
       THEN userDefaultAlignType(cfg)
       ELSE [ret |-> alignType, warn |-> FALSE]

----------------------------------------------------------------------------
(* Methods *)

\* _normalizeData: typeof null is 'object', so null is kept and reading
\* null.text throws a TypeError
_normalizeData(cfg, raw) ==
    LET isObject == TypeOf(raw) = "object"
        text == IF isObject THEN raw.text ELSE Undefined
        align == IF isObject THEN raw.align ELSE Undefined
        dflt == userDefaultAlignType(cfg)
    IN IF raw.t = "null"
       THEN [throws |-> TRUE, warn |-> FALSE,
             data |-> [text |-> Undefined, align |-> Undefined]]
       ELSE [throws |-> FALSE,
             warn |-> ~Truthy(align) /\ dflt.warn,
             data |-> [text |-> IF Truthy(text) THEN text ELSE Str(<<>>),
                       align |-> IF Truthy(align) THEN align ELSE dflt.ret]]

\* _getElement: the DIV built from this._data
_getElement(cfg, d) ==
    LET current == currentAlignType(cfg, d)
    IN [warn |-> current.warn,
        el |-> [classList |-> wrapperClasses \cup {wrapperForAlignment(JSToString(current.ret)[1])},
                innerHTML |-> IF Truthy(d.text) THEN JSToString(d.text) ELSE <<>>]]

\* the classList after the forEach of _setAlignType
setAlignClasses(classList, newAlign) ==
    (classList \ {wrapperForAlignment(align) : align \in Range(ALIGN_TYPES)})
        \cup {wrapperForAlignment(align) : align \in {a \in Range(ALIGN_TYPES) : a = newAlign}}

\* mutant: the stored align is saved, not the current one
saveStoredAlign(cfg, d, html) ==
    [warn |-> FALSE, ret |-> [text |-> Str(html), align |-> d.align]]

\* save(blockContent), blockContent.innerHTML = html
save(cfg, d, html) ==
    LET current == currentAlignType(cfg, d)
    IN [warn |-> current.warn,
        ret |-> [text |-> Str(html), align |-> current.ret]]

\* mutant: the text is not trimmed
validateWithoutTrim(cfg, text) ==
    IF ~userPreserveBlank(cfg) THEN text # <<>> ELSE TRUE

\* validate(savedData), savedData.text = text
validate(cfg, text) ==
    IF ~userPreserveBlank(cfg) THEN Trim(text) # <<>> ELSE TRUE

\* renderSettings: the entries' align type and isActive flag, in order
renderSettings(cfg, d) ==
    [i \in DOMAIN ALIGN_TYPES |->
        [align |-> ALIGN_TYPES[i],
         isActive |-> Str(<<ALIGN_TYPES[i]>>) = currentAlignType(cfg, d).ret]]

\* merge: this._element.innerHTML + data.text || ''
mergedHTML(html, text) ==
    LET joined == html \o JSToString(text)
    IN IF joined # <<>> THEN joined ELSE <<>>

\* mutant: this._data is left for the frame callback to replace
pastedDataDeferred(cfg, d, html) == [warn |-> FALSE, data |-> d]

\* onPaste: the value assigned to this._data
pastedData(cfg, d, html) ==
    LET current == currentAlignType(cfg, d)
        n == _normalizeData(cfg, Obj(Str(html), current.ret))
    IN [warn |-> current.warn \/ n.warn, data |-> n.data]

\* the constructor: this._data, then this._element
constructor(cfg, raw) ==
    LET n == _normalizeData(cfg, raw)
        e == _getElement(cfg, n.data)
    IN IF n.throws
       THEN [throws |-> TRUE, warn |-> FALSE, data |-> n.data,
             el |-> [classList |-> {}, innerHTML |-> <<>>]]
       ELSE [throws |-> FALSE, warn |-> n.warn \/ e.warn, data |-> n.data, el |-> e.el]

----------------------------------------------------------------------------
(* Inputs *)

Chars == {"a"}

SavedChars == {"a", " "}

AlignNames == Range(ALIGN_TYPES) \cup {"bogus"}

\* config.alignTypes: absent, or a list of names in any order, with repeats
AlignTypesValues ==
    {Undefined} \cup {Arr(s) : s \in SeqsUpTo(AlignNames, MaxAlignTypes)}

DefaultAlignTypeValues ==
    {Undefined, Str(<<>>)} \cup {Str(<<a>>) : a \in AlignNames}

PreserveBlankValues == {Undefined, Bool("false"), Bool("true")}

Configs ==
    [alignTypes : AlignTypesValues,
     defaultAlignType : DefaultAlignTypeValues,
     preserveBlank : PreserveBlankValues]

\* the configurations the block's life is followed under
BlockConfigs ==
    [alignTypes : {Undefined, Arr(<<>>), Arr(<<"right">>),
                   Arr(<<"justify", "center">>), Arr(<<"bogus", "left">>)},
     defaultAlignType : {Undefined, Str(<<"center">>), Str(<<"bogus">>)},
     preserveBlank : {Undefined}]

Texts == SeqsUpTo(Chars, MaxTextLen)

RawTexts == {Undefined, Num("5")} \cup {Str(s) : s \in Texts}

RawAligns == {Undefined, Str(<<>>), Num("5")} \cup {Str(<<a>>) : a \in AlignNames}

\* props.data: anything the host may hand over
RawData ==
    {Prim(Undefined), Prim(Null), Prim(Str(<<"a">>)), Prim(Num("5")), Prim(Bool("true"))}
        \cup {Obj(text, align) : text \in RawTexts, align \in RawAligns}

\* savedData.text of validate
SavedTexts ==
    SeqsUpTo(SavedChars, MaxSavedLen) \cup {<<"\n">>, <<"\t", "a", "\n">>}

\* data.text of merge
MergeTexts == {Undefined} \cup {Str(s) : s \in Texts}

Call(op, arg, ret, warn) == [op |-> op, arg |-> arg, ret |-> ret, warn |-> warn]

----------------------------------------------------------------------------
(* The block *)

\* new Paragraph({api, readOnly, config: cfg, data: raw})
Constructed(cfg, raw) ==
    LET c == constructor(cfg, raw)
    IN /\ config = cfg
       /\ data = c.data
       /\ element = c.el
       /\ thrown = c.throws
       /\ frames = 0
       /\ lastPaste = Undefined
       /\ out = Call("constructor", raw, Undefined, c.warn)

Init == \E cfg \in BlockConfigs, raw \in RawData : Constructed(cfg, raw)

\* onActivate of entry i of the settings menu
OnActivate(i) ==
    LET newAlign == renderSettings(config, data)[i].align
    IN /\ ~thrown
       /\ data' = [data EXCEPT !.align = Str(<<newAlign>>)]
       /\ element' = [element EXCEPT !.classList = setAlignClasses(@, newAlign)]
       /\ out' = Call("onActivate", Str(<<newAlign>>), Undefined, FALSE)
       /\ UNCHANGED <<config, frames, thrown, lastPaste>>

\* onPaste(event), event.detail.data.innerHTML = html
OnPaste(html) ==
    LET n == pastedData(config, data, html)
    IN /\ ~thrown
       /\ frames < MaxFrames
       /\ data' = n.data
       /\ frames' = frames + 1
       /\ lastPaste' = Str(html)
       /\ out' = Call("onPaste", Str(html), Undefined, n.warn)
       /\ UNCHANGED <<config, element, thrown>>

\* the callback handed to window.requestAnimationFrame
AnimationFrame ==
    LET e == _getElement(config, data)
    IN /\ ~thrown
       /\ frames > 0
       /\ element' = e.el
       /\ frames' = frames - 1
       /\ out' = Call("animationFrame", Undefined, Undefined, e.warn)
       /\ UNCHANGED <<config, data, thrown, lastPaste>>

\* merge(data), data.text = text
Merge(text) ==
    LET html == mergedHTML(element.innerHTML, text)
    IN /\ ~thrown
       /\ Len(html) <= MaxHtmlLen
       /\ element' = [element EXCEPT !.innerHTML = html]
       /\ out' = Call("merge", text, Undefined, FALSE)
       /\ UNCHANGED <<config, data, frames, thrown, lastPaste>>

\* save(blockContent): the host hands over the block's element
Save ==
    LET s == save(config, data, element.innerHTML)
    IN /\ ~thrown
       /\ out' = Call("save", element.innerHTML, s.ret, s.warn)
       /\ UNCHANGED <<config, data, element, frames, thrown, lastPaste>>

\* validate(savedData)
Validate(text) ==
    /\ ~thrown
    /\ out' = Call("validate", text, validate(config, text), FALSE)
    /\ UNCHANGED <<config, data, element, frames, thrown, lastPaste>>

\* render()
Render ==
    /\ ~thrown
    /\ out' = Call("render", Undefined, element, FALSE)
    /\ UNCHANGED <<config, data, element, frames, thrown, lastPaste>>

RenderSettings ==
    /\ ~thrown
    /\ out' = Call("renderSettings", Undefined, renderSettings(config, data),
                   currentAlignType(config, data).warn)
    /\ UNCHANGED <<config, data, element, frames, thrown, lastPaste>>

GetAvailableAlignTypes ==
    /\ ~thrown
    /\ out' = Call("availableAlignTypes", Undefined, availableAlignTypes(config), FALSE)
    /\ UNCHANGED <<config, data, element, frames, thrown, lastPaste>>

GetUserDefaultAlignType ==
    LET d == userDefaultAlignType(config)
    IN /\ ~thrown
       /\ out' = Call("userDefaultAlignType", Undefined, d.ret, d.warn)
       /\ UNCHANGED <<config, data, element, frames, thrown, lastPaste>>

GetCurrentAlignType ==
    LET c == currentAlignType(config, data)
    IN /\ ~thrown
       /\ out' = Call("currentAlignType", Undefined, c.ret, c.warn)
       /\ UNCHANGED <<config, data, element, frames, thrown, lastPaste>>

\* the host saves the block and builds a new one, same config, from the saved data
Reload ==
    /\ ~thrown
    /\ out.op = "save"
    /\ LET c == constructor(config, Obj(out.ret.text, out.ret.align))
       IN /\ data' = c.data
          /\ element' = c.el
          /\ thrown' = c.throws
          /\ frames' = 0
          /\ lastPaste' = Undefined
          /\ out' = Call("reload", out.ret, Undefined, c.warn)
    /\ UNCHANGED config

Next ==
    \/ \E i \in DOMAIN renderSettings(config, data) : OnActivate(i)
    \/ \E html \in Texts : OnPaste(html)
    \/ AnimationFrame
    \/ \E text \in MergeTexts : Merge(text)
    \/ Save
    \/ Render
    \/ RenderSettings
    \/ Reload

Spec == Init /\ [][Next]_vars

\* the read-only calls, under every configuration
InitQuery ==
    \E cfg \in Configs, raw \in {Prim(Undefined), Obj(Str(<<"a">>), Str(<<"center">>))} :
        Constructed(cfg, raw)

NextQuery ==
    \/ GetAvailableAlignTypes
    \/ GetUserDefaultAlignType
    \/ GetCurrentAlignType
    \/ Render
    \/ \E text \in SavedTexts : Validate(text)

SpecQuery == InitQuery /\ [][NextQuery]_vars

----------------------------------------------------------------------------
(* Properties *)

allowed == Range(availableAlignTypes(config))

allowedValues == {Str(<<align>>) : align \in allowed}

current == currentAlignType(config, data).ret

\* the alignment classes of an element
alignClasses(el) == {c \in el.classList : c[1] = "ce-paragraph-align"}

\* the position of a type in ALIGN_TYPES
canonicalIndex(align) == CHOOSE i \in DOMAIN ALIGN_TYPES : ALIGN_TYPES[i] = align

\* the types of config.alignTypes that are in ALIGN_TYPES
configuredSupported ==
    IF config.alignTypes = Undefined
    THEN {}
    ELSE Range(config.alignTypes.v) \cap Range(ALIGN_TYPES)

\* C1: whenever the allowed types are not empty, the current alignment is one
\* of them, in every state of a block.
C1_CurrentAlignIsAllowed ==
    (~thrown /\ allowed # {}) => current \in allowedValues

\* C2: the settings menu lists the allowed types and no others, in canonical
\* order, and an entry is active exactly when its type is the current
\* alignment.
C2_MenuListsAllowedTypes ==
    out.op = "renderSettings" =>
        /\ [i \in DOMAIN out.ret |-> out.ret[i].align] = availableAlignTypes(config)
        /\ \A i \in DOMAIN out.ret :
               out.ret[i].isActive <=> (Str(<<out.ret[i].align>>) = current)

\* C3 as stated: the allowed types are never empty; a list without any
\* supported type falls back to all of ALIGN_TYPES.
C3_AllowedNeverEmpty ==
    out.op = "availableAlignTypes" =>
        /\ out.ret # <<>>
        /\ configuredSupported = {} => out.ret = ALIGN_TYPES

\* C3 as amended: the allowed types are empty exactly when config.alignTypes
\* is a list none of whose entries is a supported type (the empty list
\* included); there is no fallback.
C3_AllowedEmptyIffNoSupportedEntry ==
    out.op = "availableAlignTypes" =>
        (out.ret = <<>> <=> (config.alignTypes # Undefined /\ configuredSupported = {}))

C3_Witness ==
    /\ out.op = "availableAlignTypes"
    /\ config.alignTypes # Undefined
    /\ config.alignTypes.v # <<>>
    /\ configuredSupported = {}
    /\ out.ret = <<>>

\* C4: availableAlignTypes is ALIGN_TYPES when config.alignTypes is absent,
\* and otherwise the supported types that occur in config.alignTypes, each
\* once, in the order of ALIGN_TYPES.
C4_AvailableIsCanonicalIntersection ==
    out.op = "availableAlignTypes" =>
        IF config.alignTypes = Undefined
        THEN out.ret = ALIGN_TYPES
        ELSE /\ Range(out.ret) = configuredSupported
             /\ \A i, j \in DOMAIN out.ret :
                    i < j => canonicalIndex(out.ret[i]) < canonicalIndex(out.ret[j])

C4_Witness ==
    /\ out.op = "availableAlignTypes"
    /\ config.alignTypes = Arr(<<"right", "left">>)
    /\ out.ret = <<"left", "right">>

\* C5 as stated: the resolved default is config.defaultAlignType when it is
\* present and allowed, 'left' otherwise, and a warning is emitted exactly
\* when it is present and not allowed.
C5_WarnsIffPresentAndNotAllowed ==
    out.op = "userDefaultAlignType" =>
        LET present == config.defaultAlignType # Undefined
            member == config.defaultAlignType \in allowedValues
        IN /\ out.ret = IF present /\ member
                        THEN config.defaultAlignType
                        ELSE Str(<<DEFAULT_ALIGN_TYPE>>)
           /\ out.warn <=> (present /\ ~member)

\* C5 as amended: as stated, with an empty string counted as absent: the
\* warning is emitted exactly when config.defaultAlignType is a non-empty
\* string that is not allowed.
C5_WarnsIffNonEmptyAndNotAllowed ==
    out.op = "userDefaultAlignType" =>
        LET present == config.defaultAlignType \notin {Undefined, Str(<<>>)}
            member == config.defaultAlignType \in allowedValues
        IN /\ out.ret = IF present /\ member
                        THEN config.defaultAlignType
                        ELSE Str(<<DEFAULT_ALIGN_TYPE>>)
           /\ out.warn <=> (present /\ ~member)

C5_Witness ==
    /\ out.op = "userDefaultAlignType"
    /\ config.defaultAlignType = Str(<<"center">>)
    /\ config.alignTypes = Arr(<<"right", "left">>)
    /\ out.warn
    /\ out.ret = Str(<<"left">>)

\* C6: save returns the rendered content and the current alignment; and a
\* block built from data whose align is allowed, by the host or from the data
\* a block of the same configuration saved, keeps that align and saves it
\* again.
C6_SavedAlignRoundTrips ==
    /\ out.op = "save" =>
           out.ret = [text |-> Str(element.innerHTML), align |-> current]
    /\ (out.op \in {"constructor", "reload"} /\ out.arg.align \in allowedValues) =>
           /\ ~thrown
           /\ data.align = out.arg.align
           /\ save(config, data, element.innerHTML).ret.align = out.arg.align

C6_Witness ==
    /\ out.op = "reload"
    /\ out.arg.align \in allowedValues
    /\ allowed # Range(ALIGN_TYPES)
    /\ data.align = out.arg.align

\* C7: construction never fails: data that is no record gives
\* {text: '', align: the resolved default}, and a record whose text is absent
\* or no string gives the text ''.
C7_NormalizeNeverFails ==
    out.op = "constructor" =>
        /\ ~thrown
        /\ out.arg.t # "object" =>
               data = [text |-> Str(<<>>), align |-> userDefaultAlignType(config).ret]
        /\ (out.arg.t = "object" /\ out.arg.text.t # "string") => data.text = Str(<<>>)

\* C8: validate returns true when preserveBlank is enabled, and otherwise
\* exactly when the text holds a character that is no white space; it changes
\* neither the block's data nor its element.
C8_ValidateSkipsBlank ==
    /\ [](out.op = "validate" =>
            out.ret = IF config.preserveBlank = Bool("true")
                      THEN TRUE
                      ELSE \E i \in DOMAIN out.arg : out.arg[i] \notin {" ", "\t", "\n"})
    /\ [][out'.op = "validate" => (data' = data /\ element' = element)]_vars

C8_Witness ==
    /\ out.op = "validate"
    /\ config.preserveBlank # Bool("true")
    /\ out.arg # <<>>
    /\ out.ret = FALSE

\* C9: a paste replaces the data by the pasted text and the alignment current
\* at the paste, before any frame callback runs; whatever happens in between,
\* the element a callback builds holds the text of the latest paste and the
\* class of the alignment current at that moment, and once the callbacks have
\* run render returns an element that starts with the pasted text.
C9_RebuildReadsPastedData ==
    /\ [](lastPaste # Undefined => data.text = lastPaste)
    /\ []((out.op = "render" /\ lastPaste # Undefined /\ frames = 0) =>
            /\ Len(out.ret.innerHTML) >= Len(lastPaste.v)
            /\ SubSeq(out.ret.innerHTML, 1, Len(lastPaste.v)) = lastPaste.v)
    /\ [][out'.op = "onPaste" =>
            (data'.text = out'.arg /\ data'.align = currentAlignType(config, data).ret)]_vars
    /\ [][out'.op = "animationFrame" =>
            /\ element'.innerHTML = lastPaste.v
            /\ alignClasses(element') =
                   {wrapperForAlignment(currentAlignType(config', data').ret.v[1])}]_vars

C9_Witness ==
    /\ out.op = "animationFrame"
    /\ frames = 1
    /\ lastPaste = Str(<<"a">>)
    /\ element.innerHTML = <<"a">>
    /\ alignClasses(element) = {wrapperForAlignment("center")}

\* C10: once every paste is completed, the element carries exactly one
\* alignment class, that of the current alignment.
C10_DisplayedAlignIsCurrent ==
    (~thrown /\ frames = 0) =>
        alignClasses(element) = {wrapperForAlignment(current.v[1])}

====
